---- MODULE Spec2Model ----
(***************************************************************************)
(* The indexing data model of backend/danswer/indexing/models.py:          *)
(* the chunk hierarchy BaseChunk -> DocAwareChunk -> IndexChunk ->          *)
(* DocMetadataAwareIndexChunk, DocMetadataAwareIndexChunk.from_index_chunk, *)
(* DocAwareChunk.to_short_descriptor and EmbeddingModelDetail.from_model.   *)
(*                                                                         *)
(* The classes are pydantic models.  Objects that Python passes by          *)
(* reference and that can be changed in place (the list of                  *)
(* large_chunk_reference_ids, the set of document_sets, the DocumentAccess  *)
(* object) live in `heap`; a field holding one holds its index.  All other  *)
(* field values are immutable or rebuilt by value and are kept as values.   *)
(***************************************************************************)
EXTENDS Integers, Sequences, FiniteSets, TLC

VARIABLES
  chunks,      \* the chunk objects constructed so far, in order of creation
  origin,      \* for each chunk: how it was made (constructor / from_index_chunk and its arguments)
  heap,        \* the mutable objects: lists, sets, DocumentAccess objects
  caller,      \* the per-document arguments the pipeline holds: references to access and document_sets, and boost
  described,   \* the results returned so far by to_short_descriptor, as <<chunk, text>> pairs
  live,        \* the live embedding-model configuration record
  details,     \* the EmbeddingModelDetail snapshots taken so far
  attempt,     \* the last construction attempt with its keyword arguments and outcome
  text,        \* the indexed-text round trip of one DocAwareChunk
  modified     \* the last in-place modification of a mutable object: through which holder

vars == <<chunks, origin, heap, caller, described, modified, live, details, attempt, text>>

----------------------------------------------------------------------------
(* Bounds of the model *)

MaxChunks == 2
MaxShareChunks == 4
MaxDetails == 3
MaxOmitted == 2
MaxLen == 2
MaxAffixLen == 1
MaxReferenceIds == 2

----------------------------------------------------------------------------
(* Optional values: `X | None` *)

None == <<>>
Some(v) == <<v>>
IsNone(o) == o = <<>>

----------------------------------------------------------------------------
(* The fields each class declares *)

BaseChunkFields ==
  {"chunk_id", "blurb", "content", "source_links", "section_continuation"}

DocAwareChunkFields ==
  BaseChunkFields \cup
  {"source_document", "title_prefix", "metadata_suffix_semantic",
   "metadata_suffix_keyword", "mini_chunk_texts", "large_chunk_reference_ids"}

IndexChunkFields == DocAwareChunkFields \cup {"embeddings", "title_embedding"}

DocMetadataAwareIndexChunkFields ==
  IndexChunkFields \cup {"access", "document_sets", "boost"}

EmbeddingModelDetailFields ==
  {"model_name", "model_dim", "normalize", "query_prefix", "passage_prefix",
   "cloud_provider_id", "cloud_provider_name"}

ChunkClasses ==
  {"BaseChunk", "DocAwareChunk", "IndexChunk", "DocMetadataAwareIndexChunk"}

Classes == ChunkClasses \cup {"EmbeddingModelDetail"}

FieldsOf(cls) ==
  CASE cls = "BaseChunk" -> BaseChunkFields
    [] cls = "DocAwareChunk" -> DocAwareChunkFields
    [] cls = "IndexChunk" -> IndexChunkFields
    [] cls = "DocMetadataAwareIndexChunk" -> DocMetadataAwareIndexChunkFields
    [] cls = "EmbeddingModelDetail" -> EmbeddingModelDetailFields

\* Fields declared with `= <default>` in the class body.
DefaultedFields ==
  {"large_chunk_reference_ids", "cloud_provider_id", "cloud_provider_name"}

\* Fields annotated `... | None` and declared without a default.
OptionalFields ==
  {"source_links", "mini_chunk_texts", "title_embedding", "query_prefix",
   "passage_prefix"}

\* The declared default of a defaulted field; None for a `| None` field that
\* the validating library fills in when it treats such a field as optional.
Default(f) ==
  IF f = "large_chunk_reference_ids" THEN <<>> ELSE None

----------------------------------------------------------------------------
(* The heap of mutable objects *)

ListCell(items) == [type |-> "list", items |-> items]
SetCell(items) == [type |-> "set", items |-> items]
AccessCell(user_ids, is_public) ==
  [type |-> "DocumentAccess", user_ids |-> user_ids, is_public |-> is_public]

\* Validation of a `list[int]` field: the items are validated one by one into a new list.
validate_list(h, items) == Append(h, ListCell(items))

\* Validation of the `set[str]` field: the members are validated one by one into a new set.
validate_set(h, ref) == Append(h, SetCell(h[ref].items))

\* Validation of the `"DocumentAccess"` field: an instance of the class is
\* accepted as it is, so the field holds the very object that was passed.
validate_access(h, ref) == ref

----------------------------------------------------------------------------
\* The constructor every class inherits from BaseModel, called with keyword
\* arguments.  kwargs maps the given field names to their values; document_sets
\* and access are given as references, a list as its items.  `lax` says whether
\* the library treats a `| None` field without default as optional.

NoFields == [f \in {} |-> None]

\* The required fields as they would be if content were declared with a default.
RequiredFieldsContentDefaulted(cls, lax) ==
  {f \in FieldsOf(cls) :
     f \notin DefaultedFields \cup {"content"} /\ (f \notin OptionalFields \/ ~lax)}

RequiredFields(cls, lax) ==
  {f \in FieldsOf(cls) : f \notin DefaultedFields /\ (f \notin OptionalFields \/ ~lax)}

construct(cls, kwargs, h, lax) ==
  LET missing == RequiredFields(cls, lax) \ DOMAIN kwargs
      value(f) == IF f \in DOMAIN kwargs THEN kwargs[f] ELSE Default(f)
      h1 == IF "large_chunk_reference_ids" \in FieldsOf(cls)
            THEN validate_list(h, value("large_chunk_reference_ids"))
            ELSE h
      h2 == IF "document_sets" \in FieldsOf(cls)
            THEN validate_set(h1, kwargs["document_sets"])
            ELSE h1
      stored(f) ==
        CASE f = "large_chunk_reference_ids" -> Len(h1)
          [] f = "document_sets" -> Len(h2)
          [] f = "access" -> validate_access(h2, kwargs["access"])
          [] OTHER -> value(f)
  IN IF missing # {}
     THEN [ok |-> FALSE, missing |-> missing,
           obj |-> [cls |-> cls, fields |-> NoFields], heap |-> h]
     ELSE [ok |-> TRUE, missing |-> {},
           obj |-> [cls |-> cls, fields |-> [f \in FieldsOf(cls) |-> stored(f)]],
           heap |-> h2]

\* obj.dict(): the fields as a plain dict, containers copied by value.
dict(obj, h) ==
  [f \in DOMAIN obj.fields |->
     IF f = "large_chunk_reference_ids" THEN h[obj.fields[f]].items
     ELSE obj.fields[f]]

----------------------------------------------------------------------------
(* Reading a chunk by value: references followed into the heap *)

ReferenceFields == {"large_chunk_reference_ids", "document_sets", "access"}

Value(c, h) ==
  [f \in DOMAIN c.fields |->
     IF f \in ReferenceFields THEN h[c.fields[f]] ELSE c.fields[f]]

----------------------------------------------------------------------------
(* DocMetadataAwareIndexChunk.from_index_chunk *)

MetadataKeywords == {"access", "document_sets", "boost"}

\* from_index_chunk as it would be if the dict left out the fields that may hold
\* their default (exclude_defaults / exclude_none), so that the new object
\* takes the class defaults for them.
from_index_chunk_excluding_defaults(index_chunk, access, document_sets, boost, h) ==
  LET data == dict(index_chunk, h)
      kept == {f \in DOMAIN data : f \notin {"large_chunk_reference_ids", "title_embedding"}}
      keywords == [access |-> access, document_sets |-> document_sets, boost |-> boost]
  IN construct("DocMetadataAwareIndexChunk",
               keywords @@ [title_embedding |-> None] @@ [f \in kept |-> data[f]], h, FALSE)

\* from_index_chunk as it would be if boost were not passed on but reset to neutral.
from_index_chunk_neutral_boost(index_chunk, access, document_sets, boost, h) ==
  construct("DocMetadataAwareIndexChunk",
            [access |-> access, document_sets |-> document_sets, boost |-> 0]
              @@ dict(index_chunk, h), h, FALSE)

\* A keyword given twice (once by the dict, once by name) is a TypeError of the call.
from_index_chunk(index_chunk, access, document_sets, boost, h) ==
  LET index_chunk_data == dict(index_chunk, h)
      keywords == [access |-> access, document_sets |-> document_sets, boost |-> boost]
  IN IF DOMAIN index_chunk_data \cap MetadataKeywords # {}
     THEN [ok |-> FALSE, missing |-> {},
           obj |-> [cls |-> "DocMetadataAwareIndexChunk", fields |-> NoFields],
           heap |-> h]
     ELSE construct("DocMetadataAwareIndexChunk", keywords @@ index_chunk_data, h, FALSE)

----------------------------------------------------------------------------
(* DocAwareChunk.to_short_descriptor *)

Digit(d) ==
  CASE d = 0 -> "0" [] d = 1 -> "1" [] d = 2 -> "2" [] d = 3 -> "3" [] d = 4 -> "4"
    [] d = 5 -> "5" [] d = 6 -> "6" [] d = 7 -> "7" [] d = 8 -> "8" [] d = 9 -> "9"

RECURSIVE NatToStr(_)
NatToStr(n) == IF n < 10 THEN Digit(n) ELSE NatToStr(n \div 10) \o Digit(n % 10)

\* str(int) as the f-string formats chunk_id
IntToStr(n) == IF n < 0 THEN "-" \o NatToStr(-n) ELSE NatToStr(n)

\* Document.to_short_descriptor of the connector's Document
document_to_short_descriptor(doc) ==
  "ID: '" \o doc.id \o "'; Semantic ID: '" \o doc.semantic_identifier \o "'"

\* to_short_descriptor as it would be if it named the chunk by its position
\* among the large-chunk references instead of by chunk_id.
to_short_descriptor_by_reference_count(chunk) ==
  "Chunk ID: '" \o IntToStr(chunk.fields.large_chunk_reference_ids) \o "'; "
    \o document_to_short_descriptor(chunk.fields.source_document)

to_short_descriptor(chunk) ==
  "Chunk ID: '" \o IntToStr(chunk.fields.chunk_id) \o "'; "
    \o document_to_short_descriptor(chunk.fields.source_document)

----------------------------------------------------------------------------
(* The values the pipeline's callers pass in *)

D1 == [id |-> "D1", semantic_identifier |-> "Doc one"]
Links == [offset \in {0} |-> "https://example.com/d1#0"]
Vec == <<1, 2>>

BaseScenario ==
  [chunk_id |-> 0, blurb |-> "Hello", content |-> "Hello world",
   source_links |-> None, section_continuation |-> FALSE]

DocAwareScenario ==
  [source_document |-> D1, title_prefix |-> "", metadata_suffix_semantic |-> "",
   metadata_suffix_keyword |-> "", mini_chunk_texts |-> None] @@ BaseScenario

IndexScenario ==
  [embeddings |-> [full_embedding |-> Vec, mini_chunk_embeddings |-> <<>>],
   title_embedding |-> None] @@ DocAwareScenario

BaseVariations ==
  {NoFields, [chunk_id |-> 12], [source_links |-> Some(Links)],
   [section_continuation |-> TRUE]}

DocAwareVariations ==
  {NoFields,
   [title_prefix |-> "Title: ", metadata_suffix_semantic |-> " Metadata: a",
    metadata_suffix_keyword |-> " a"],
   [mini_chunk_texts |-> Some(<<>>)],
   [large_chunk_reference_ids |-> <<1>>]}

Embeddings(minis) == [full_embedding |-> Vec, mini_chunk_embeddings |-> minis]

IndexVariations ==
  {NoFields, [chunk_id |-> 12], [chunk_id |-> -3], [source_links |-> Some(Links)],
   [title_prefix |-> "Title: ", title_embedding |-> Some(Vec)],
   [title_prefix |-> "Title: "],
   [title_embedding |-> Some(Vec)],
   [mini_chunk_texts |-> Some(<<>>)],
   [mini_chunk_texts |-> Some(<<"Hello">>), embeddings |-> Embeddings(<<Vec>>)],
   [mini_chunk_texts |-> Some(<<"Hello">>)],
   [mini_chunk_texts |-> Some(<<>>), embeddings |-> Embeddings(<<Vec>>)],
   [embeddings |-> Embeddings(<<Vec>>)],
   [large_chunk_reference_ids |-> <<1>>]}

BoostValues == {0, -2}

BaseChunkKwargs == {o @@ BaseScenario : o \in BaseVariations}
DocAwareChunkKwargs == {o @@ DocAwareScenario : o \in DocAwareVariations}
IndexChunkKwargs == {o @@ IndexScenario : o \in IndexVariations}

AccessValues == {AccessCell({}, TRUE), AccessCell({"user1"}, FALSE)}
DocumentSetValues == {{"default"}}

----------------------------------------------------------------------------
(* The state after start-up, and the parts of it each specification leaves idle *)

NoLive ==
  [model_name |-> "", model_dim |-> 0, normalize |-> FALSE, query_prefix |-> None,
   passage_prefix |-> None, cloud_provider_id |-> None, cloud_provider_name |-> None]
NoAttempt == [cls |-> "", kwargs |-> NoFields, lax |-> FALSE, ok |-> FALSE,
              missing |-> {}, fields |-> NoFields]
NoText == [stage |-> "idle"]

NotModified == [by |-> "nobody", chunk |-> 0, field |-> ""]

IdleChunks ==
  /\ chunks = <<>> /\ origin = <<>> /\ heap = <<>>
  /\ caller = [access |-> 0, document_sets |-> 0, boost |-> 0] /\ described = {}
  /\ modified = NotModified
IdleDetails == live = NoLive /\ details = <<>>
IdleAttempt == attempt = NoAttempt
IdleText == text = NoText

\* The pipeline holds one access object and one document-set set per document.
Init ==
  /\ chunks = <<>> /\ origin = <<>> /\ described = {} /\ modified = NotModified
  /\ \E a \in AccessValues, s \in DocumentSetValues : heap = <<a, SetCell(s)>>
  /\ caller = [access |-> 1, document_sets |-> 2, boost |-> 0]
  /\ IdleDetails /\ IdleAttempt /\ IdleText

----------------------------------------------------------------------------
(* The operations on chunks *)

ByConstructor ==
  [via |-> "constructor", ic |-> 0, access |-> 0, document_sets |-> 0, boost |-> 0]

NewChunk(cls, kwargs) ==
  LET r == construct(cls, kwargs, heap, FALSE)
  IN /\ Len(chunks) < MaxChunks
     /\ r.ok
     /\ chunks' = Append(chunks, r.obj)
     /\ heap' = r.heap
     /\ origin' = Append(origin, ByConstructor)
     /\ UNCHANGED <<caller, described, modified, live, details, attempt, text>>

ConstructBaseChunk == \E kw \in BaseChunkKwargs : NewChunk("BaseChunk", kw)

ConstructDocAwareChunk == \E kw \in DocAwareChunkKwargs : NewChunk("DocAwareChunk", kw)

ConstructIndexChunk == \E kw \in IndexChunkKwargs : NewChunk("IndexChunk", kw)

ConstructDocMetadataAwareIndexChunk ==
  \E b \in BoostValues :
    NewChunk("DocMetadataAwareIndexChunk",
             [access |-> caller.access, document_sets |-> caller.document_sets,
              boost |-> b] @@ IndexScenario)

IsIndexChunk(c) == c.cls \in {"IndexChunk", "DocMetadataAwareIndexChunk"}

DoFromIndexChunk(i, b) ==
  LET r == from_index_chunk(chunks[i], caller.access, caller.document_sets, b, heap)
  IN /\ IsIndexChunk(chunks[i])
     /\ r.ok
     /\ chunks' = Append(chunks, r.obj)
     /\ heap' = r.heap
     /\ origin' = Append(origin,
          [via |-> "from_index_chunk", ic |-> i, access |-> caller.access,
           document_sets |-> caller.document_sets, boost |-> b])
     /\ UNCHANGED <<caller, described, modified, live, details, attempt, text>>

FromIndexChunk ==
  \E i \in DOMAIN chunks, b \in BoostValues :
    Len(chunks) < MaxChunks /\ DoFromIndexChunk(i, b)

ToShortDescriptor ==
  \E i \in DOMAIN chunks :
    /\ chunks[i].cls # "BaseChunk"
    /\ described' = described \cup {<<i, to_short_descriptor(chunks[i])>>}
    /\ UNCHANGED <<chunks, origin, heap, caller, modified, live, details, attempt, text>>

Next ==
  \/ ConstructBaseChunk
  \/ ConstructDocAwareChunk
  \/ ConstructIndexChunk
  \/ ConstructDocMetadataAwareIndexChunk
  \/ FromIndexChunk
  \/ ToShortDescriptor

Spec == Init /\ [][Next]_vars

----------------------------------------------------------------------------
(* EmbeddingModelDetail.from_model *)

\* from_model as it would be if it also copied the provider's name from the record.
from_model_with_provider_name(embedding_model) ==
  construct("EmbeddingModelDetail",
            [model_name |-> embedding_model.model_name,
             model_dim |-> embedding_model.model_dim,
             normalize |-> embedding_model.normalize,
             query_prefix |-> embedding_model.query_prefix,
             passage_prefix |-> embedding_model.passage_prefix,
             cloud_provider_id |-> embedding_model.cloud_provider_id,
             cloud_provider_name |-> embedding_model.cloud_provider_name],
            <<>>, FALSE)

from_model(embedding_model) ==
  construct("EmbeddingModelDetail",
            [model_name |-> embedding_model.model_name,
             model_dim |-> embedding_model.model_dim,
             normalize |-> embedding_model.normalize,
             query_prefix |-> embedding_model.query_prefix,
             passage_prefix |-> embedding_model.passage_prefix,
             cloud_provider_id |-> embedding_model.cloud_provider_id],
            <<>>, FALSE)

\* The live configuration records (danswer.db.models.EmbeddingModel): the
\* attributes from_model reads, and the name of the record's cloud provider.
ModelRecords ==
  {[model_name |-> "intfloat/e5-base-v2", model_dim |-> 768, normalize |-> TRUE,
    query_prefix |-> Some("query: "), passage_prefix |-> Some("passage: "),
    cloud_provider_id |-> None, cloud_provider_name |-> None],
   [model_name |-> "all-MiniLM-L6-v2", model_dim |-> 384, normalize |-> FALSE,
    query_prefix |-> None, passage_prefix |-> None,
    cloud_provider_id |-> None, cloud_provider_name |-> None],
   [model_name |-> "text-embedding-3-small", model_dim |-> 1536, normalize |-> FALSE,
    query_prefix |-> None, passage_prefix |-> None,
    cloud_provider_id |-> Some(1), cloud_provider_name |-> Some("OpenAI")],
   [model_name |-> "embed-english-v3.0", model_dim |-> 1024, normalize |-> TRUE,
    query_prefix |-> Some("search_query"), passage_prefix |-> Some("search_document"),
    cloud_provider_id |-> Some(2), cloud_provider_name |-> Some("Cohere")]}

InitDetail ==
  /\ live \in ModelRecords /\ details = <<>>
  /\ IdleChunks /\ IdleAttempt /\ IdleText

\* from_model as it would be if the detail were one cached object that each
\* call refreshes: every detail handed out earlier shows the new values.
FromModelRefreshing ==
  LET r == from_model(live)
  IN /\ Len(details) < MaxDetails
     /\ r.ok
     /\ details' = [k \in DOMAIN details |-> [details[k] EXCEPT !.detail = r.obj.fields]]
                     \o <<[detail |-> r.obj.fields, source |-> live]>>
     /\ UNCHANGED <<chunks, origin, heap, caller, described, modified, live, attempt, text>>

\* A snapshot is taken of the live record; `source` remembers the record as it was.
FromModel ==
  LET r == from_model(live)
  IN /\ Len(details) < MaxDetails
     /\ r.ok
     /\ details' = Append(details, [detail |-> r.obj.fields, source |-> live])
     /\ UNCHANGED <<chunks, origin, heap, caller, described, modified, live, attempt, text>>

\* The live record is changed in the database (a model swap).
SwapModel ==
  /\ \E m \in ModelRecords \ {live} : live' = m
  /\ UNCHANGED <<chunks, origin, heap, caller, described, modified, details, attempt, text>>

NextDetail == FromModel \/ SwapModel

SpecDetail == InitDetail /\ [][NextDetail]_vars

----------------------------------------------------------------------------
(* C4: for every live record m, from_model(m) does not fail and returns a    *)
(* detail whose model_name, model_dim, normalize, query_prefix,              *)
(* passage_prefix and cloud_provider_id are those of m (None without a cloud *)
(* provider, the id otherwise), with cloud_provider_name None.               *)

ProjectionOf(d, m) ==
  /\ DOMAIN d = EmbeddingModelDetailFields
  /\ d.model_name = m.model_name
  /\ d.model_dim = m.model_dim
  /\ d.normalize = m.normalize
  /\ d.query_prefix = m.query_prefix
  /\ d.passage_prefix = m.passage_prefix
  /\ d.cloud_provider_id = m.cloud_provider_id
  /\ IsNone(d.cloud_provider_name)

C4_FromModelProjects ==
  /\ from_model(live).ok
  /\ ProjectionOf(from_model(live).obj.fields, live)
  /\ \A k \in DOMAIN details : ProjectionOf(details[k].detail, details[k].source)

C4_Witness ==
  \E j, k \in DOMAIN details :
    /\ IsNone(details[j].source.cloud_provider_id)
    /\ IsNone(details[j].detail.cloud_provider_id)
    /\ details[k].source.cloud_provider_name = Some("OpenAI")
    /\ details[k].detail.cloud_provider_id = Some(1)

----------------------------------------------------------------------------
(* C7: once from_model has returned a snapshot, no later operation changes   *)
(* it; in particular a change of the live record leaves every earlier        *)
(* snapshot as it was, so snapshots from before and after coexist.           *)

----------------------------------------------------------------------------
(* Construction with keyword arguments left out *)

\* Keyword arguments naming every field of the class, none with its default value.
FullKwargs(cls) ==
  IF cls = "EmbeddingModelDetail"
  THEN [model_name |-> "text-embedding-3-small", model_dim |-> 1536,
        normalize |-> TRUE, query_prefix |-> Some("query: "),
        passage_prefix |-> Some("passage: "), cloud_provider_id |-> Some(1),
        cloud_provider_name |-> Some("OpenAI")]
  ELSE LET all == [access |-> caller.access, document_sets |-> caller.document_sets,
                   boost |-> -2, source_links |-> Some(Links),
                   mini_chunk_texts |-> Some(<<"Hello">>),
                   embeddings |-> Embeddings(<<Vec>>), title_embedding |-> Some(Vec),
                   title_prefix |-> "Title: ", large_chunk_reference_ids |-> <<1>>]
                    @@ IndexScenario
       IN [f \in FieldsOf(cls) |-> all[f]]

Omissions(cls) == {o \in SUBSET FieldsOf(cls) : Cardinality(o) <= MaxOmitted}

InitConstruct ==
  /\ chunks = <<>> /\ origin = <<>> /\ described = {} /\ modified = NotModified
  /\ \E a \in AccessValues, s \in DocumentSetValues : heap = <<a, SetCell(s)>>
  /\ caller = [access |-> 1, document_sets |-> 2, boost |-> 0]
  /\ IdleDetails /\ IdleAttempt /\ IdleText

\* cls(...) is called with the fields in `omitted` left out; the outcome is
\* recorded: the error with the fields it names, or the object by value.
\* One construction is followed per behaviour.
ConstructAttempt ==
  \E cls \in Classes, lax \in BOOLEAN :
    \E omitted \in Omissions(cls) :
      LET full == FullKwargs(cls)
          kwargs == [f \in FieldsOf(cls) \ omitted |-> full[f]]
          r == construct(cls, kwargs, heap, lax)
      IN /\ attempt = NoAttempt
         /\ attempt' = [cls |-> cls, kwargs |-> kwargs, lax |-> lax, ok |-> r.ok,
                        missing |-> r.missing,
                        fields |-> IF r.ok THEN Value(r.obj, r.heap) ELSE NoFields]
         /\ UNCHANGED <<chunks, origin, heap, caller, described, modified, live,
                        details, text>>

NextConstruct == ConstructAttempt

SpecConstruct == InitConstruct /\ [][NextConstruct]_vars

----------------------------------------------------------------------------
(* C5 as stated: a field absent at construction is a construction error and  *)
(* is never defaulted: no construction that omits a field succeeds.          *)

Omitted(a) == FieldsOf(a.cls) \ DOMAIN a.kwargs

C5_NoOmissionSucceeds ==
  attempt.cls # "" => (Omitted(attempt) # {} => ~attempt.ok)

(* C5 as amended: a field declared without a default and not typed `| None`  *)
(* that is absent at construction makes the construction fail with an error  *)
(* naming it, and no given value is ever replaced.  A construction that      *)
(* succeeds has left out only fields declared with a default, which hold     *)
(* that default ([] or None), or `| None` fields, which hold None.           *)

StoredAsGiven(a, f) ==
  CASE f = "access" -> a.fields[f] = heap[a.kwargs[f]]
    [] f = "document_sets" -> a.fields[f].items = heap[a.kwargs[f]].items
    [] f = "large_chunk_reference_ids" -> a.fields[f].items = a.kwargs[f]
    [] OTHER -> a.fields[f] = a.kwargs[f]

StoredAsDefault(a, f) ==
  IF f = "large_chunk_reference_ids" THEN a.fields[f].items = <<>>
  ELSE IsNone(a.fields[f])

AlwaysRequired(cls) == FieldsOf(cls) \ (DefaultedFields \cup OptionalFields)

C5_RequiredFieldsEnforced ==
  attempt.cls # "" =>
    LET absent == Omitted(attempt) \cap AlwaysRequired(attempt.cls)
    IN /\ absent # {} => (~attempt.ok /\ absent \subseteq attempt.missing)
       /\ ~attempt.ok => attempt.missing # {} /\ attempt.missing \subseteq Omitted(attempt)
       /\ attempt.ok =>
            /\ DOMAIN attempt.fields = FieldsOf(attempt.cls)
            /\ \A f \in DOMAIN attempt.kwargs : StoredAsGiven(attempt, f)
            /\ \A f \in Omitted(attempt) :
                 /\ f \in DefaultedFields \cup OptionalFields
                 /\ f \in OptionalFields => attempt.lax
                 /\ StoredAsDefault(attempt, f)

C5_Witness ==
  /\ attempt.cls = "DocAwareChunk"
  /\ Omitted(attempt) = {"content", "large_chunk_reference_ids"}
  /\ ~attempt.ok
  /\ attempt.missing = {"content"}

----------------------------------------------------------------------------
(* The indexed text of a DocAwareChunk: assembled from title_prefix, content *)
(* and a metadata suffix, and cleaned again by removing that prefix and that *)
(* suffix.  Strings are sequences of characters here.                        *)

Chars == {"a", "b"}

Strings(n) == UNION {[1..k -> Chars] : k \in 0..n}

StartsWith(t, p) == Len(p) <= Len(t) /\ SubSeq(t, 1, Len(p)) = p
EndsWith(t, x) == Len(x) <= Len(t) /\ SubSeq(t, Len(t) - Len(x) + 1, Len(t)) = x

\* Removal of the prefix that takes away every leading repetition of it.
RECURSIVE remove_prefix_repeated(_, _)
remove_prefix_repeated(t, p) ==
  IF p # <<>> /\ StartsWith(t, p)
  THEN remove_prefix_repeated(SubSeq(t, Len(p) + 1, Len(t)), p)
  ELSE t

remove_prefix(t, p) == IF StartsWith(t, p) THEN SubSeq(t, Len(p) + 1, Len(t)) ELSE t
remove_suffix(t, x) == IF EndsWith(t, x) THEN SubSeq(t, 1, Len(t) - Len(x)) ELSE t

SuffixOf(t) ==
  IF t.path = "semantic" THEN t.metadata_suffix_semantic ELSE t.metadata_suffix_keyword

assemble(t, path) ==
  t.title_prefix \o t.content \o
    (IF path = "semantic" THEN t.metadata_suffix_semantic ELSE t.metadata_suffix_keyword)

clean(t) == remove_suffix(remove_prefix(t.indexed, t.title_prefix), SuffixOf(t))

InitText ==
  /\ \E p, sem, kw \in Strings(MaxAffixLen), c \in Strings(MaxLen) :
       text = [stage |-> "chunk", title_prefix |-> p, content |-> c,
               metadata_suffix_semantic |-> sem, metadata_suffix_keyword |-> kw,
               path |-> "", indexed |-> <<>>, cleaned |-> <<>>]
  /\ IdleChunks /\ IdleDetails /\ IdleAttempt

Assemble(path) ==
  /\ text.stage = "chunk"
  /\ text' = [text EXCEPT !.stage = "indexed", !.path = path,
                          !.indexed = assemble(text, path)]
  /\ UNCHANGED <<chunks, origin, heap, caller, described, modified, live, details, attempt>>

AssembleSemantic == Assemble("semantic")
AssembleKeyword == Assemble("keyword")

Clean ==
  /\ text.stage = "indexed"
  /\ text' = [text EXCEPT !.stage = "cleaned", !.cleaned = clean(text)]
  /\ UNCHANGED <<chunks, origin, heap, caller, described, modified, live, details, attempt>>

NextText == AssembleSemantic \/ AssembleKeyword \/ Clean

SpecText == InitText /\ [][NextText]_vars

----------------------------------------------------------------------------
(* C8: the indexed text assembled from title_prefix, content and the         *)
(* semantic (or keyword) metadata suffix, with that prefix and that suffix   *)
(* removed again, is the original content, for empty and non-empty prefix    *)
(* and suffixes alike.                                                       *)

C8_RoundTrip ==
  /\ text.stage = "indexed" =>
       /\ StartsWith(text.indexed, text.title_prefix)
       /\ EndsWith(text.indexed, SuffixOf(text))
       /\ Len(text.indexed)
            = Len(text.title_prefix) + Len(text.content) + Len(SuffixOf(text))
  /\ text.stage = "cleaned" => text.cleaned = text.content

C8_Witness ==
  /\ text.stage = "cleaned"
  /\ text.path = "keyword"
  /\ text.title_prefix # <<>>
  /\ SuffixOf(text) # <<>>
  /\ StartsWith(text.content, text.title_prefix)
  /\ EndsWith(text.content, SuffixOf(text))
  /\ text.metadata_suffix_semantic = <<>>
  /\ text.cleaned = text.content

----------------------------------------------------------------------------
(* Several chunks of one document, and in-place modification of the mutable  *)
(* objects they and the caller hold                                          *)

FirstChunkKwargs == {IndexScenario, [large_chunk_reference_ids |-> <<1>>] @@ IndexScenario}
SecondChunkKwargs == {[chunk_id |-> 12] @@ IndexScenario}

\* Two IndexChunks of the document have been constructed.
InitShare ==
  /\ \E a \in AccessValues, s \in DocumentSetValues :
       \E kw1 \in FirstChunkKwargs, kw2 \in SecondChunkKwargs :
         LET r1 == construct("IndexChunk", kw1, <<a, SetCell(s)>>, FALSE)
             r2 == construct("IndexChunk", kw2, r1.heap, FALSE)
         IN /\ chunks = <<r1.obj, r2.obj>>
            /\ heap = r2.heap
  /\ origin = <<ByConstructor, ByConstructor>>
  /\ caller = [access |-> 1, document_sets |-> 2, boost |-> 0]
  /\ described = {} /\ modified = NotModified
  /\ IdleDetails /\ IdleAttempt /\ IdleText

\* The document's access, document_sets and boost are passed for each of its chunks.
FromIndexChunkOfDocument ==
  \E i \in DOMAIN chunks :
    Len(chunks) < MaxShareChunks /\ DoFromIndexChunk(i, caller.boost)

Modify(ref, cell, by, i, field) ==
  /\ heap' = [heap EXCEPT ![ref] = cell]
  /\ modified' = [by |-> by, chunk |-> i, field |-> field]
  /\ UNCHANGED <<chunks, origin, caller, described, live, details, attempt, text>>

\* chunk.document_sets.add(...)
ModifyDocumentSets ==
  \E i \in DOMAIN chunks :
    /\ chunks[i].cls = "DocMetadataAwareIndexChunk"
    /\ LET ref == chunks[i].fields.document_sets
       IN Modify(ref, [heap[ref] EXCEPT !.items = @ \cup {"added"}],
                 "chunk", i, "document_sets")

\* chunk.access.user_ids.add(...)
ModifyAccess ==
  \E i \in DOMAIN chunks :
    /\ chunks[i].cls = "DocMetadataAwareIndexChunk"
    /\ LET ref == chunks[i].fields.access
       IN Modify(ref, [heap[ref] EXCEPT !.user_ids = @ \cup {"added"}],
                 "chunk", i, "access")

\* chunk.large_chunk_reference_ids.append(...)
ModifyLargeChunkReferenceIds ==
  \E i \in DOMAIN chunks :
    LET ref == chunks[i].fields.large_chunk_reference_ids
    IN /\ Len(heap[ref].items) < MaxReferenceIds
       /\ Modify(ref, [heap[ref] EXCEPT !.items = Append(@, 9)],
                 "chunk", i, "large_chunk_reference_ids")

\* The caller changes the set it passed as document_sets.
ModifyCallerDocumentSets ==
  LET ref == caller.document_sets
  IN Modify(ref, [heap[ref] EXCEPT !.items = @ \cup {"added"}],
            "caller", 0, "document_sets")

\* The caller changes the access object it passed as access.
ModifyCallerAccess ==
  LET ref == caller.access
  IN Modify(ref, [heap[ref] EXCEPT !.user_ids = @ \cup {"added"}],
            "caller", 0, "access")

NextShare ==
  \/ FromIndexChunkOfDocument
  \/ ModifyDocumentSets
  \/ ModifyAccess
  \/ ModifyLargeChunkReferenceIds
  \/ ModifyCallerDocumentSets
  \/ ModifyCallerAccess

SpecShare == InitShare /\ [][NextShare]_vars

----------------------------------------------------------------------------
(* C10: chunks share no mutable state: a modification of one chunk's         *)
(* document_sets, access or large_chunk_reference_ids, or of the object the  *)
(* caller passed, leaves the fields of every other chunk unchanged.          *)

C10_NoSharedMutableState ==
  [][modified' # modified =>
       \A j \in DOMAIN chunks :
         \/ modified'.by = "chunk" /\ modified'.chunk = j
         \/ Value(chunks[j], heap') = Value(chunks[j], heap)]_vars

Derived(i) == origin[i].via = "from_index_chunk"

----------------------------------------------------------------------------
(* C1: from_index_chunk(ic, access, document_sets, boost) returns a new      *)
(* DocMetadataAwareIndexChunk whose inherited fields equal those of ic by    *)
(* value, whose access, document_sets and boost equal the arguments, with    *)
(* exactly those three fields added; and no operation changes ic.            *)

C1_FieldsPreserved ==
  \A i \in DOMAIN chunks :
    Derived(i) =>
      LET r == Value(chunks[i], heap)
          ic == Value(chunks[origin[i].ic], heap)
      IN /\ chunks[i].cls = "DocMetadataAwareIndexChunk"
         /\ origin[i].ic # i
         /\ DOMAIN r = IndexChunkFields \cup MetadataKeywords
         /\ DOMAIN ic = IndexChunkFields
         /\ \A f \in IndexChunkFields : r[f] = ic[f]
         /\ r.access = heap[origin[i].access]
         /\ r.document_sets.items = heap[origin[i].document_sets].items
         /\ r.boost = origin[i].boost

C1_ChunksUnchanged ==
  [][\A i \in DOMAIN chunks :
       /\ i \in DOMAIN chunks'
       /\ chunks'[i] = chunks[i]
       /\ Value(chunks'[i], heap') = Value(chunks[i], heap)]_vars

C1_FromIndexChunkExtends == []C1_FieldsPreserved /\ C1_ChunksUnchanged

C1_Witness ==
  \E i \in DOMAIN chunks :
    /\ Derived(i)
    /\ origin[i].boost = -2
    /\ Value(chunks[origin[i].ic], heap).large_chunk_reference_ids.items # <<>>

----------------------------------------------------------------------------
(* C2: every IndexChunk that exists with mini_chunk_texts present has as     *)
(* many mini_chunk_embeddings as mini_chunk_texts (a construction with       *)
(* differing lengths fails, so no such chunk comes to exist).                *)

C2_EmbeddingArity ==
  \A i \in DOMAIN chunks :
    (IsIndexChunk(chunks[i]) /\ ~IsNone(chunks[i].fields.mini_chunk_texts)) =>
      Len(chunks[i].fields.embeddings.mini_chunk_embeddings)
        = Len(chunks[i].fields.mini_chunk_texts[1])

----------------------------------------------------------------------------
(* C3: the stages occur in the order Base -> DocAware -> Index ->            *)
(* DocMetadataAware: a DocMetadataAwareIndexChunk exists only as the result  *)
(* of from_index_chunk on an IndexChunk constructed before it, an IndexChunk *)
(* only after a DocAwareChunk, a DocAwareChunk only after a BaseChunk.       *)

Earlier(i, cls) == \E j \in DOMAIN chunks : j < i /\ chunks[j].cls = cls

C3_StageOrder ==
  \A i \in DOMAIN chunks :
    /\ chunks[i].cls = "DocMetadataAwareIndexChunk" =>
         /\ Derived(i)
         /\ origin[i].ic < i
         /\ chunks[origin[i].ic].cls = "IndexChunk"
    /\ chunks[i].cls = "IndexChunk" => Earlier(i, "DocAwareChunk")
    /\ chunks[i].cls = "DocAwareChunk" => Earlier(i, "BaseChunk")

----------------------------------------------------------------------------
(* C6: to_short_descriptor of a chunk from DocAwareChunk onward returns      *)
(* exactly "Chunk ID: '<chunk_id>'; <document's short descriptor>", for any  *)
(* source_links and mini_chunk_texts; two calls return the same string, the  *)
(* call changes no chunk, and the string is the same for the chunk that      *)
(* from_index_chunk builds from it.                                          *)

ExpectedDescriptor(chunk_id) ==
  CASE chunk_id = 0 -> "Chunk ID: '0'; ID: 'D1'; Semantic ID: 'Doc one'"
    [] chunk_id = 12 -> "Chunk ID: '12'; ID: 'D1'; Semantic ID: 'Doc one'"
    [] chunk_id = -3 -> "Chunk ID: '-3'; ID: 'D1'; Semantic ID: 'Doc one'"

C6_DescriptorExact ==
  /\ \A i \in DOMAIN chunks :
       chunks[i].cls # "BaseChunk" =>
         to_short_descriptor(chunks[i]) = ExpectedDescriptor(chunks[i].fields.chunk_id)
  /\ \A p \in described : p[2] = ExpectedDescriptor(chunks[p[1]].fields.chunk_id)
  /\ \A p, q \in described : p[1] = q[1] => p[2] = q[2]
  /\ \A p, q \in described :
       (Derived(q[1]) /\ origin[q[1]].ic = p[1]) => p[2] = q[2]

C6_DescriptorPure ==
  [][described' # described =>
       /\ chunks' = chunks /\ heap' = heap
       /\ described \subseteq described']_vars

C6_ShortDescriptor == []C6_DescriptorExact /\ C6_DescriptorPure

C6_Witness ==
  \E p, q \in described :
    /\ Derived(q[1]) /\ origin[q[1]].ic = p[1]
    /\ IsNone(chunks[p[1]].fields.source_links)
    /\ chunks[p[1]].fields.mini_chunk_texts = Some(<<>>)
    /\ p[2] = q[2]

----------------------------------------------------------------------------
(* C9 as stated: no IndexChunk (or DocMetadataAwareIndexChunk) has an empty  *)
(* title_prefix together with a title_embedding.                             *)

TitleEmbeddingWithoutPrefix(c) ==
  c.fields.title_prefix = "" /\ ~IsNone(c.fields.title_embedding)

C9_TitleEmbeddingOnlyWithPrefix ==
  \A i \in DOMAIN chunks :
    IsIndexChunk(chunks[i]) => ~TitleEmbeddingWithoutPrefix(chunks[i])

(* C9 as amended: the classes accept a title_embedding with an empty         *)
(* title_prefix; a DocMetadataAwareIndexChunk built by from_index_chunk has  *)
(* the title_prefix and the title_embedding of the IndexChunk it was built   *)
(* from, so it has an empty title_prefix with a title_embedding exactly when *)
(* that IndexChunk has.                                                      *)

C9_TitleEmbeddingCarriedOver ==
  \A i \in DOMAIN chunks :
    Derived(i) =>
      /\ chunks[i].fields.title_prefix = chunks[origin[i].ic].fields.title_prefix
      /\ chunks[i].fields.title_embedding = chunks[origin[i].ic].fields.title_embedding
      /\ TitleEmbeddingWithoutPrefix(chunks[i])
           <=> TitleEmbeddingWithoutPrefix(chunks[origin[i].ic])

C9_Witness ==
  \E i \in DOMAIN chunks : Derived(i) /\ TitleEmbeddingWithoutPrefix(chunks[i])

====
